---- MODULE Spec2Model ----
(***************************************************************************)
(* A model of src/mysignal/mysignal.py: the transfer-function algebra      *)
(* (TF, PID), the symbolic bridge (poly_to_sympy / poly_from_sympy), the   *)
(* discrete-time simulation step TF.apply_f and the frequency-response     *)
(* estimator TF_from_signal.                                               *)
(*                                                                         *)
(* Real numbers are exact rationals <<n, d>> (d > 0, lowest terms); complex *)
(* numbers are pairs of rationals.  Arrays are records                     *)
(* [isarr, shape, data] with data in row-major order, as numpy keeps them. *)
(***************************************************************************)
EXTENDS Integers, Sequences, FiniteSets, TLC

VARIABLES
    (* simulation: one TF object shared by the simulation streams *)
    tf,        \* the TF object: [num, den]
    ctor,      \* the (num, den) the TF object was constructed from
    Ts,        \* sample period used by the streams
    xs,        \* xs[s]: the state object stream s threads through apply_f
    uform,     \* uform[s]: the form (type, shape) of the inputs of stream s
    ys,        \* ys[s]: the output of stream s's last apply_f call
    call,      \* the last apply_f call: arguments before and after, result
    solo,      \* per stream and channel: the channel run on its own
    alone,     \* per stream: the stream run on a TF object of its own
    obs,       \* per stream: step count, previous output, input history flag
    (* algebra *)
    F, G,      \* operand TF objects
    R,         \* result of the last operator
    lastop,    \* the last operator and its right/left operand
    pid,       \* the last PID object built
    rt,        \* the last poly_from_sympy(poly_to_sympy(..)) round trip
    (* estimator *)
    est        \* TF_from_signal: arguments, loop position, locals, H_all

vars == <<tf, ctor, Ts, xs, uform, ys, call, solo, alone, obs, F, G, R, lastop, pid, rt, est>>

simVars == <<tf, ctor, Ts, xs, uform, ys, call, solo, alone, obs>>
algVars == <<F, G, R, lastop, pid, rt>>
estVars == <<est>>

-----------------------------------------------------------------------------
(* Exact rational arithmetic *)

Abs(n) == IF n < 0 THEN -n ELSE n

RECURSIVE GCD(_, _)
GCD(a, b) == IF b = 0 THEN a ELSE GCD(b, a % b)

Rat(n, d) ==
    LET g == GCD(Abs(n), Abs(d))
        s == IF d < 0 THEN -1 ELSE 1
    IN  <<(s * n) \div g, (s * d) \div g>>

Zero == <<0, 1>>
One == <<1, 1>>
Int2R(n) == <<n, 1>>

RAdd(a, b) ==
    LET g == GCD(a[2], b[2])
    IN  Rat(a[1] * (b[2] \div g) + b[1] * (a[2] \div g), (a[2] \div g) * b[2])
RNeg(a) == <<-a[1], a[2]>>
RSub(a, b) == RAdd(a, RNeg(b))
RMul(a, b) ==
    IF a[1] = 0 \/ b[1] = 0 THEN <<0, 1>>
    ELSE LET g1 == GCD(Abs(a[1]), b[2])
             g2 == GCD(Abs(b[1]), a[2])
         IN  <<(a[1] \div g1) * (b[1] \div g2), (a[2] \div g2) * (b[2] \div g1)>>
RInv(b) == IF b[1] < 0 THEN <<-b[2], -b[1]>> ELSE <<b[2], b[1]>>
RDiv(a, b) == RMul(a, RInv(b))
RLeq(a, b) == a[1] * b[2] <= b[1] * a[2]
RAbs(a) == <<Abs(a[1]), a[2]>>

RECURSIVE RSum(_)
RSum(s) == IF s = << >> THEN Zero ELSE RAdd(Head(s), RSum(Tail(s)))

-----------------------------------------------------------------------------
(* Polynomials: coefficient sequences, highest degree first.               *)
(* Internally the zero polynomial is << >>.                                *)

RECURSIVE PStrip(_)
PStrip(p) == IF p = << >> THEN << >>
             ELSE IF Head(p) = Zero THEN PStrip(Tail(p)) ELSE p

PPad(p, n) == [i \in 1..n |-> IF i <= n - Len(p) THEN Zero ELSE p[i - (n - Len(p))]]
Max(a, b) == IF a >= b THEN a ELSE b

PAdd(p, q) ==
    LET n == Max(Len(p), Len(q))
        a == PPad(p, n)
        b == PPad(q, n)
    IN  PStrip([i \in 1..n |-> RAdd(a[i], b[i])])

PScale(p, c) == PStrip([i \in 1..Len(p) |-> RMul(c, p[i])])
PNeg(p) == [i \in 1..Len(p) |-> RNeg(p[i])]
PSub(p, q) == PAdd(p, PNeg(q))

PMul(p, q) ==
    IF p = << >> \/ q = << >> THEN << >>
    ELSE LET n == Len(p) + Len(q) - 1
         IN  PStrip([k \in 1..n |->
                RSum([i \in 1..Len(p) |->
                    IF k + 1 - i >= 1 /\ k + 1 - i <= Len(q)
                    THEN RMul(p[i], q[k + 1 - i]) ELSE Zero])])

(* remainder of p by q (q # 0), both stripped *)
RECURSIVE PMod(_, _)
PMod(p, q) ==
    IF Len(p) < Len(q) THEN p
    ELSE LET c == RDiv(p[1], q[1])
             shifted == [i \in 1..Len(p) |-> IF i <= Len(q) THEN RMul(c, q[i]) ELSE Zero]
         IN  PMod(PSub(p, shifted), q)

(* exact quotient of p by q (q # 0) *)
RECURSIVE PQuo(_, _)
PQuo(p, q) ==
    IF Len(p) < Len(q) THEN << >>
    ELSE LET c == RDiv(p[1], q[1])
             shifted == [i \in 1..Len(p) |-> IF i <= Len(q) THEN RMul(c, q[i]) ELSE Zero]
             term == [i \in 1..(Len(p) - Len(q) + 1) |-> IF i = 1 THEN c ELSE Zero]
         IN  PAdd(term, PQuo(PSub(p, shifted), q))

PMonic(p) == IF p = << >> THEN << >> ELSE PScale(p, RDiv(One, p[1]))

(* monic greatest common divisor; PGcd(0, 0) = 0 *)
RECURSIVE PGcd(_, _)
PGcd(p, q) == IF q = << >> THEN PMonic(p) ELSE PGcd(q, PMonic(PMod(p, q)))

Degree(p) == Len(PStrip(p)) - 1

(* the integer content that clears denominators and common integer factors *)
RECURSIVE LcmDen(_)
LcmDen(p) == IF p = << >> THEN 1
             ELSE LET l == LcmDen(Tail(p)) IN (Head(p)[2] * l) \div GCD(Head(p)[2], l)
RECURSIVE GcdNum(_)
GcdNum(p) == IF p = << >> THEN 0 ELSE GCD(Abs(Head(p)[1]), GcdNum(Tail(p)))

IntSeq(s) == [i \in 1..Len(s) |-> Int2R(s[i])]

-----------------------------------------------------------------------------
(* Symbolic bridge.  A sympy expression in s is a quotient of two          *)
(* polynomials [n, d]; d = 0 stands for the undefined value (zoo / nan)    *)
(* sympy yields for a division by zero.                                    *)

Raised == [raised |-> TRUE]
IsRaised(v) == "raised" \in DOMAIN v

(* sy.Poly(num, s) / sy.Poly(den, s): leading zeros vanish in Poly *)
PolyQuot(num, den) == [n |-> PStrip(num), d |-> PStrip(den)]

(* a real scalar taking part in an expression *)
XScalar(c) == [n |-> PStrip(<<c>>), d |-> <<One>>]

XUndef(a) == a.d = << >>

(* the quotient written with integer coefficients without a common integer *)
(* divisor and a positive leading denominator coefficient; 0 is 0/1.       *)
sy_primitive(e) ==
    IF e.d = << >> THEN e
    ELSE IF e.n = << >> THEN [n |-> << >>, d |-> <<One>>]
    ELSE LET scaled(q, k) == [n |-> PScale(q.n, k), d |-> PScale(q.d, k)]
             content(q) == Rat(IF q.d[1][1] < 0 THEN -1 ELSE 1, GcdNum(q.n \o q.d))
             primitive(q) == scaled(q, content(q))
         IN  primitive(scaled(e, Rat(LcmDen(e.n \o e.d), 1)))

(* sy.simplify on a rational expression: common polynomial factors are     *)
(* cancelled, the rest is written as sy_primitive does.                    *)
sy_simplify(e) ==
    IF e.d = << >> THEN e
    ELSE IF e.n = << >> THEN [n |-> << >>, d |-> <<One>>]
    ELSE LET cancel(g) == sy_primitive([n |-> PQuo(e.n, g), d |-> PQuo(e.d, g)])
         IN  cancel(PGcd(e.n, e.d))

XAdd(a, b) == IF XUndef(a) \/ XUndef(b) THEN [n |-> << >>, d |-> << >>]
              ELSE [n |-> PAdd(PMul(a.n, b.d), PMul(b.n, a.d)), d |-> PMul(a.d, b.d)]
XSub(a, b) == IF XUndef(a) \/ XUndef(b) THEN [n |-> << >>, d |-> << >>]
              ELSE [n |-> PSub(PMul(a.n, b.d), PMul(b.n, a.d)), d |-> PMul(a.d, b.d)]
XMul(a, b) == IF XUndef(a) \/ XUndef(b) THEN [n |-> << >>, d |-> << >>]
              ELSE [n |-> PMul(a.n, b.n), d |-> PMul(a.d, b.d)]
XDiv(a, b) == IF XUndef(a) \/ XUndef(b) THEN [n |-> << >>, d |-> << >>]
              ELSE [n |-> PMul(a.n, b.d), d |-> PMul(a.d, b.n)]

(* coefficients listed lowest degree first *)
all_coeffs_ascending(p) ==
    IF p = << >> THEN <<Zero>> ELSE [i \in 1..Len(p) |-> p[Len(p) + 1 - i]]
(* Poly.all_coeffs(): the zero polynomial is [0] *)
all_coeffs(p) == IF p = << >> THEN <<Zero>> ELSE p

poly_to_sympy(num, den, simplify) ==
    IF simplify THEN sy_simplify(PolyQuot(num, den)) ELSE PolyQuot(num, den)

(* returns [num, den], or Raised when the expression is undefined *)
poly_from_sympy(xpr) ==
    LET c_num_den(e) == IF XUndef(e) THEN Raised
                        ELSE [num |-> all_coeffs(e.n), den |-> all_coeffs(e.d)]
    IN  c_num_den(sy_simplify(xpr))

-----------------------------------------------------------------------------
(* TF objects: [num, den] as scipy.signal.TransferFunction keeps them      *)

AllZero(p) == \A i \in 1..Len(p) : p[i] = Zero

(* num kept as given, only den made monic *)
TF_num_as_given(num, den) ==
    IF den = << >> \/ AllZero(den) \/ num = << >> THEN Raised
    ELSE LET d1 == PStrip(den)
             n2 == PStrip(num)
         IN  [num |-> IF n2 = << >> THEN <<Zero>> ELSE n2,
              den |-> [i \in 1..Len(d1) |-> RDiv(d1[i], d1[1])]]

(* scipy.signal.normalize, run by TransferFunction.__init__: leading zeros *)
(* of den dropped, both divided by den[0], leading zeros of num dropped    *)
(* but for the last coefficient.                                           *)
TF(num, den) ==
    IF den = << >> \/ AllZero(den) \/ num = << >> THEN Raised
    ELSE LET d1 == PStrip(den)
             n1 == [i \in 1..Len(num) |-> RDiv(num[i], d1[1])]
             d2 == [i \in 1..Len(d1) |-> RDiv(d1[i], d1[1])]
             n2 == PStrip(n1)
         IN  [num |-> IF n2 = << >> THEN <<Zero>> ELSE n2, den |-> d2]

to_sympy(self) == poly_to_sympy(self.num, self.den, TRUE)

from_sympy(xpr) ==
    LET make(nd) == IF IsRaised(nd) THEN Raised ELSE TF(nd.num, nd.den)
    IN  make(poly_from_sympy(xpr))

IsScalar(o) == "scalar" \in DOMAIN o
Scalar(c) == [scalar |-> c]

_check_other(other) == IF IsScalar(other) THEN XScalar(other.scalar) ELSE to_sympy(other)

__neg__(self) == TF(PNeg(self.num), self.den)
__mul__(self, other) == from_sympy(XMul(to_sympy(self), _check_other(other)))
__truediv__(self, other) == from_sympy(XDiv(to_sympy(self), _check_other(other)))
__rtruediv__swapped(self, other) == from_sympy(XDiv(to_sympy(self), _check_other(other)))
__rtruediv__(self, other) == from_sympy(XDiv(_check_other(other), to_sympy(self)))
__add__(self, other) == from_sympy(XAdd(to_sympy(self), _check_other(other)))
__sub__(self, other) == from_sympy(XSub(to_sympy(self), _check_other(other)))
__rsub__(self, other) == from_sympy(XSub(_check_other(other), to_sympy(self)))
__rmul__(self, other) == __mul__(self, other)
__radd__(self, other) == __add__(self, other)

(* the derivative term without its D/8 filter time constant *)
PID_unfiltered(P, I, D) ==
    LET plusI(t) == IF I # Zero THEN __add__(t, TF(<<I>>, <<One, Zero>>)) ELSE t
        plusD(t) == IF D # Zero THEN __add__(t, TF(<<D, Zero>>, <<D, One>>)) ELSE t
        init(t) == [num |-> t.num, den |-> t.den, kP |-> P, kI |-> I, kD |-> D]
    IN  init(plusD(plusI(TF(<<P>>, <<One>>))))

(* PID.__init__: the TF fields and the three gains *)
PID(P, I, D) ==
    LET plusI(t) == IF I # Zero THEN __add__(t, TF(<<I>>, <<One, Zero>>)) ELSE t
        plusD(t) == IF D # Zero
                    THEN __add__(t, TF(<<D, Zero>>, <<RDiv(D, Int2R(8)), One>>))
                    ELSE t
        init(t) == [num |-> t.num, den |-> t.den, kP |-> P, kI |-> I, kD |-> D]
    IN  init(plusD(plusI(TF(<<P>>, <<One>>))))

-----------------------------------------------------------------------------
(* Bounds of the algebra model *)

MaxLen == 2         \* longest coefficient sequence an operand is built from
MaxGain == 2        \* largest PID gain tried

NumSeqs == UNION {[1..n -> {Zero, One}] : n \in 1..MaxLen}
DenSeqs == {d \in UNION {[1..n -> {Int2R(-1), Zero, One}] : n \in 1..MaxLen} : ~AllZero(d)}

(* the TF objects the operand F is drawn from: every constructible one *)
TFPool == {TF(n, d) : n \in NumSeqs, d \in DenSeqs}

(* the right-hand (or left-hand) operands: TF objects and plain numbers *)
OtherTFs == { TF(IntSeq(<<1>>), IntSeq(<<1, 0>>)),
              TF(IntSeq(<<1, 1>>), IntSeq(<<1, 1>>)),
              TF(IntSeq(<<1, 0>>), IntSeq(<<1, 2, 1>>)),
              TF(IntSeq(<<0>>), IntSeq(<<1>>)) }
OtherScalars == {Scalar(Int2R(c)) : c \in {0, 2}}
Others == OtherTFs \cup OtherScalars

(* the scalar factor poly_from_sympy's result is written with is sympy's   *)
(* choice; the model leaves it open among these                            *)
Scales == {One, Int2R(-2), <<1, 2>>}

NoResult == [none |-> TRUE]
IsNone(v) == "none" \in DOMAIN v
IsTF(v) == "num" \in DOMAIN v

ScalePair(nd, k) ==
    IF IsRaised(nd) THEN nd
    ELSE [num |-> [i \in 1..Len(nd.num) |-> RMul(k, nd.num[i])],
          den |-> [i \in 1..Len(nd.den) |-> RMul(k, nd.den[i])]]

AlgIdle == /\ F = NoResult /\ R = NoResult /\ G = NoResult
           /\ lastop = [op |-> "none"]
           /\ pid = NoResult /\ rt = NoResult

(* The operators are pure functions of their operands: a behaviour is one *)
(* operation on freshly drawn operands.                                    *)
Fresh == IsNone(R) /\ IsNone(pid) /\ IsNone(rt)

(* -F *)
Neg == \E self \in TFPool :
          /\ Fresh
          /\ F' = self
          /\ R' = __neg__(self)
          /\ G' = NoResult
          /\ lastop' = [op |-> "neg"]
          /\ UNCHANGED <<pid, rt, simVars, estVars>>

(* one binary operator method of the TF object self; F and G record the    *)
(* operands                                                                *)
Apply(op, self, other) ==
    /\ Fresh
    /\ R' = CASE op = "mul" -> __mul__(self, other)
              [] op = "rmul" -> __rmul__(self, other)
              [] op = "truediv" -> __truediv__(self, other)
              [] op = "rtruediv" -> __rtruediv__(self, other)
              [] op = "add" -> __add__(self, other)
              [] op = "radd" -> __radd__(self, other)
              [] op = "sub" -> __sub__(self, other)
              [] op = "rsub" -> __rsub__(self, other)
    /\ F' = self
    /\ G' = other
    /\ lastop' = [op |-> op]
    /\ UNCHANGED <<pid, rt, simVars, estVars>>

BinOps == {"mul", "rmul", "truediv", "rtruediv", "add", "radd", "sub", "rsub"}

Binary == \E op \in BinOps, self \in TFPool, other \in Others : Apply(op, self, other)

(* PID(P, I, D) *)
NewPID ==
    \E P \in -1..MaxGain, I \in -1..MaxGain, D \in -1..MaxGain :
        /\ Fresh
        /\ pid' = [args |-> <<Int2R(P), Int2R(I), Int2R(D)>>,
                   obj |-> PID(Int2R(P), Int2R(I), Int2R(D))]
        /\ UNCHANGED <<F, G, R, lastop, rt, simVars, estVars>>

(* poly_from_sympy(poly_to_sympy(num, den)) *)
RoundTrip ==
    \E num \in NumSeqs, den \in DenSeqs, k \in Scales :
        /\ Fresh
        /\ rt' = [num |-> num, den |-> den,
                  out |-> ScalePair(poly_from_sympy(poly_to_sympy(num, den, TRUE)), k)]
        /\ UNCHANGED <<F, G, R, lastop, pid, simVars, estVars>>

-----------------------------------------------------------------------------
(* Arrays and matrices.  A value is [isarr, shape, data]: a Python number  *)
(* has isarr = FALSE; an ndarray has its shape and row-major data.         *)
(* A matrix is a sequence of rows.                                         *)

PyScalar(r) == [isarr |-> FALSE, shape |-> << >>, data |-> <<r>>]
Arr(shape, data) == [isarr |-> TRUE, shape |-> shape, data |-> data]
Size(a) == Len(a.data)

(* a.T for a 2-D array *)
ArrT(a) ==
    LET r == a.shape[1]
        c == a.shape[2]
    IN  Arr(<<c, r>>, [k \in 1..(r * c) |->
            a.data[((k - 1) % r) * c + ((k - 1) \div r) + 1]])

Rows(M) == Len(M)
Cols(M) == IF M = << >> THEN 0 ELSE Len(M[1])
Eye(n) == [i \in 1..n |-> [j \in 1..n |-> IF i = j THEN One ELSE Zero]]
MAdd(M, N) == [i \in 1..Rows(M) |-> [j \in 1..Cols(M) |-> RAdd(M[i][j], N[i][j])]]
MScale(c, M) == [i \in 1..Rows(M) |-> [j \in 1..Cols(M) |-> RMul(c, M[i][j])]]
MMul(M, N) == [i \in 1..Rows(M) |-> [j \in 1..Cols(N) |->
                 RSum([k \in 1..Cols(M) |-> RMul(M[i][k], N[k][j])])]]
(* M.dot(v) for a column v given as a sequence *)
MDot(M, v) == [i \in 1..Rows(M) |-> RSum([k \in 1..Len(v) |-> RMul(M[i][k], v[k])])]
VAdd(v, w) == [i \in 1..Len(v) |-> RAdd(v[i], w[i])]

Minor(M, r, c) ==
    [i \in 1..(Rows(M) - 1) |-> [j \in 1..(Cols(M) - 1) |->
        M[IF i < r THEN i ELSE i + 1][IF j < c THEN j ELSE j + 1]]]

RECURSIVE Det(_)
Det(M) ==
    IF M = << >> THEN One
    ELSE RSum([j \in 1..Cols(M) |->
            RMul(IF j % 2 = 1 THEN M[1][j] ELSE RNeg(M[1][j]), Det(Minor(M, 1, j)))])

(* the inverse of a non-singular square matrix *)
Inverse(M) ==
    LET d == Det(M)
    IN  [i \in 1..Rows(M) |-> [j \in 1..Rows(M) |->
            RDiv(RMul(IF (i + j) % 2 = 0 THEN One ELSE RNeg(One), Det(Minor(M, j, i))), d)]]

(* np.kron(M, np.eye(m)): the channels interleaved *)
KronSwapped(m, M) ==
    LET r == Rows(M)
        c == Cols(M)
    IN  [i \in 1..(m * r) |-> [j \in 1..(m * c) |->
            IF (i - 1) % m = (j - 1) % m
            THEN M[((i - 1) \div m) + 1][((j - 1) \div m) + 1] ELSE Zero]]

(* np.kron(np.eye(m), M): m copies of M on the diagonal *)
KronEye(m, M) ==
    LET r == Rows(M)
        c == Cols(M)
    IN  [i \in 1..(m * r) |-> [j \in 1..(m * c) |->
            IF (i - 1) \div r = (j - 1) \div c
            THEN M[((i - 1) % r) + 1][((j - 1) % c) + 1] ELSE Zero]]

(* scipy.signal.tf2ss on normalized (num, den) with len(den) >= 2: the     *)
(* controller canonical form; Raised for an improper transfer function.    *)
tf2ss(num, den) ==
    LET M == Len(num)
        K == Len(den)
    IN  IF M > K THEN Raised
        ELSE LET nump == PPad(num, K)
             IN  [A |-> [i \in 1..(K - 1) |-> [j \in 1..(K - 1) |->
                          IF i = 1 THEN RNeg(den[j + 1])
                          ELSE IF j = i - 1 THEN One ELSE Zero]],
                  B |-> [i \in 1..(K - 1) |-> <<IF i = 1 THEN One ELSE Zero>>],
                  C |-> <<[j \in 1..(K - 1) |->
                            RSub(nump[j + 1], RMul(nump[1], den[j + 1]))]>>,
                  D |-> <<<<nump[1]>>>>]

(* the input matrix discretized without the factor dt *)
cont2discrete_nodt(ss, dt) ==
    LET I == Eye(Rows(ss.A))
        out(ad, bd, cd) == [A |-> ad, B |-> bd, C |-> cd,
                            D |-> MAdd(ss.D, MScale(<<1, 2>>, MMul(ss.C, bd)))]
        solve(inv, half) == out(MMul(inv, MAdd(I, MScale(half, ss.A))),
                                MMul(inv, ss.B),
                                MMul(ss.C, inv))
        bilinear(ima, half) == IF Det(ima) = Zero THEN Raised
                               ELSE solve(Inverse(ima), half)
        halved(half) == bilinear(MAdd(I, MScale(RNeg(half), ss.A)), half)
    IN  halved(RDiv(dt, Int2R(2)))

(* scipy.signal.cont2discrete(.., method='bilinear'); Raised when          *)
(* I - (dt/2) A is singular                                                *)
cont2discrete(ss, dt) ==
    LET I == Eye(Rows(ss.A))
        out(ad, bd, cd) == [A |-> ad, B |-> bd, C |-> cd,
                            D |-> MAdd(ss.D, MScale(<<1, 2>>, MMul(ss.C, bd)))]
        solve(inv, half) == out(MMul(inv, MAdd(I, MScale(half, ss.A))),
                                MMul(inv, MScale(dt, ss.B)),
                                MMul(ss.C, inv))
        bilinear(ima, half) == IF Det(ima) = Zero THEN Raised
                               ELSE solve(Inverse(ima), half)
        halved(half) == bilinear(MAdd(I, MScale(RNeg(half), ss.A)), half)
    IN  halved(RDiv(dt, Int2R(2)))

-----------------------------------------------------------------------------
(* TF.apply_f(self, u, x, Ts).  The result is [raised, y, x1] together     *)
(* with the contents the objects self, u and x have when the call returns. *)

(* lines 155-161: u rebound to a column *)
ColumnOf(u) ==
    IF ~u.isarr THEN Arr(<<1, 1>>, u.data)
    ELSE IF Len(u.shape) = 1 THEN Arr(<<Size(u), 1>>, u.data)
    ELSE IF u.shape[2] # 1 THEN ArrT(u)
    ELSE u

(* lines 176-183, read with the u the name is bound to at that point *)
PutBack(u, y) ==
    IF ~u.isarr THEN PyScalar(y.data[1])
    ELSE IF Len(u.shape) = 1 THEN Arr(<<Size(y)>>, y.data)
    ELSE IF u.shape[2] # 1 THEN ArrT(y)
    ELSE y

(* line 187: y.reshape(y.size).real *)
Flat(y) == Arr(<<Size(y)>>, y.data)

CallRaised(self, u, x) ==
    [raised |-> TRUE, static |-> FALSE, y |-> PyScalar(Zero), x1 |-> x,
     self |-> self, u |-> u, x |-> x]

(* the step writes the new state into the caller's x before y is computed *)
apply_f_inplace(self, u, x, dt) ==
    IF Len(self.den) = 1 /\ Len(self.num) = 1
    THEN [raised |-> FALSE, static |-> TRUE,
          y |-> [u EXCEPT !.data = [i \in 1..Size(u) |->
                     RDiv(RMul(u.data[i], self.num[1]), self.den[1])]],
          x1 |-> x, self |-> self, u |-> u, x |-> x]
    ELSE
    LET x1_vec(A, B, uc) == VAdd(MDot(A, x.data), MDot(B, uc.data))
        ret(y, x1) == [raised |-> FALSE, static |-> FALSE,
                       y |-> Flat(y), x1 |-> Arr(x.shape, x1),
                       self |-> self, u |-> u, x |-> Arr(x.shape, x1)]
        dot(uc, A, B, C, D) ==
            ret(PutBack(uc, Arr(<<Size(uc), 1>>,
                                VAdd(MDot(C, x1_vec(A, B, uc)), MDot(D, uc.data)))),
                x1_vec(A, B, uc))
        kron(uc, dd) ==
            IF IsRaised(dd) THEN CallRaised(self, u, x)
            ELSE IF Size(x) # Rows(dd.A) * Size(uc) \/ uc.shape[1] # Size(uc)
            THEN CallRaised(self, u, x)
            ELSE dot(uc, KronEye(Size(uc), dd.A), KronEye(Size(uc), dd.B),
                         KronEye(Size(uc), dd.C), KronEye(Size(uc), dd.D))
        discretize(uc, ss) == IF IsRaised(ss) THEN CallRaised(self, u, x)
                              ELSE kron(uc, cont2discrete(ss, dt))
    IN  discretize(ColumnOf(u), tf2ss(self.num, self.den))

apply_f(self, u, x, dt) ==
    IF Len(self.den) = 1 /\ Len(self.num) = 1
    THEN [raised |-> FALSE, static |-> TRUE,
          y |-> [u EXCEPT !.data = [i \in 1..Size(u) |->
                     RDiv(RMul(u.data[i], self.num[1]), self.den[1])]],
          x1 |-> x, self |-> self, u |-> u, x |-> x]
    ELSE
    LET x1_vec(A, B, uc) == VAdd(MDot(A, x.data), MDot(B, uc.data))
        ret(y, x1) == [raised |-> FALSE, static |-> FALSE,
                       y |-> Flat(y), x1 |-> Arr(x.shape, x1),
                       self |-> self, u |-> u, x |-> x]
        dot(uc, A, B, C, D) ==
            ret(PutBack(uc, Arr(<<Size(uc), 1>>,
                                VAdd(MDot(C, x.data), MDot(D, uc.data)))),
                x1_vec(A, B, uc))
        kron(uc, dd) ==
            IF IsRaised(dd) THEN CallRaised(self, u, x)
            ELSE IF Size(x) # Rows(dd.A) * Size(uc) \/ uc.shape[1] # Size(uc)
            THEN CallRaised(self, u, x)
            ELSE dot(uc, KronEye(Size(uc), dd.A), KronEye(Size(uc), dd.B),
                         KronEye(Size(uc), dd.C), KronEye(Size(uc), dd.D))
        discretize(uc, ss) == IF IsRaised(ss) THEN CallRaised(self, u, x)
                              ELSE kron(uc, cont2discrete(ss, dt))
    IN  discretize(ColumnOf(u), tf2ss(self.num, self.den))

-----------------------------------------------------------------------------
(* The simulation loop of a caller: streams threading their own x through  *)
(* apply_f of one TF object.  A stream feeds inputs of one form.           *)

MaxSteps == 3       \* apply_f calls per stream
MaxChan == 2        \* channels of an input u

(* constructor arguments of the TF objects simulated: static gains (one    *)
(* with a leading zero), the integrator, a lag with a direct term, an      *)
(* unstable pole, a second-order system and an improper one                *)
StaticCtors ==
    { [num |-> IntSeq(<<2>>), den |-> IntSeq(<<1>>)],
      [num |-> IntSeq(<<-1>>), den |-> IntSeq(<<2>>)],
      [num |-> IntSeq(<<0, 3>>), den |-> IntSeq(<<1>>)] }
DynamicCtors ==
    { [num |-> IntSeq(<<1>>), den |-> IntSeq(<<1, 0>>)],
      [num |-> IntSeq(<<1, 0>>), den |-> IntSeq(<<2, 2>>)],
      [num |-> IntSeq(<<1>>), den |-> IntSeq(<<1, -1>>)],
      [num |-> IntSeq(<<1, 2>>), den |-> IntSeq(<<1, 3, 2>>)],
      [num |-> IntSeq(<<1, 0>>), den |-> IntSeq(<<1>>)] }
SimCtors == StaticCtors \cup DynamicCtors

SamplePeriods == {<<1, 2>>, Int2R(2)}

ShapeSize(sh) == IF Len(sh) = 0 THEN 1 ELSE IF Len(sh) = 1 THEN sh[1] ELSE sh[1] * sh[2]

(* the forms of u: a Python number; for m channels a 1-D array, a row and  *)
(* a column matrix; and a square matrix, which is no vector                *)
UForms == {[isarr |-> FALSE, shape |-> << >>]}
          \cup {[isarr |-> TRUE, shape |-> sh] :
                  sh \in UNION {{<<m>>, <<1, m>>, <<m, 1>>} : m \in 1..MaxChan}}
          \cup {[isarr |-> TRUE, shape |-> <<2, 2>>]}
UData(n) == {[i \in 1..n |-> One], [i \in 1..n |-> Int2R(i + 1)]}
UOf(form, d) == [isarr |-> form.isarr, shape |-> form.shape, data |-> d]

(* the states x a caller starts from: zero or not, flat or channel x order *)
XData(n) == {[i \in 1..n |-> Zero], [i \in 1..n |-> Int2R(i)]}
XShapes(c) ==
    IF c \in StaticCtors THEN {<<3>>, <<2, 2>>}
    ELSE LET n == Max(Len(c.den) - 1, 1)
         IN  {<<n * m>> : m \in 1..MaxChan} \cup {<<MaxChan, n>>, <<n * MaxChan + 1>>}
XPool(c) == UNION {{Arr(sh, d) : d \in XData(ShapeSize(sh))} : sh \in XShapes(c)}

Order(t) == Len(t.den) - 1
IsStatic(t) == Len(t.den) = 1 /\ Len(t.num) = 1
AllZeroData(a) == \A i \in 1..Size(a) : a.data[i] = Zero

(* channel i's part of a state of channels of order n *)
Block(data, i, n) == [j \in 1..n |-> data[(i - 1) * n + j]]

SoloInit(t, x) ==
    IF IsStatic(t) \/ Order(t) = 0 \/ Size(x) % Order(t) # 0 THEN << >>
    ELSE [i \in 1..(Size(x) \div Order(t)) |->
            [x |-> Arr(<<Order(t)>>, Block(x.data, i, Order(t))), y |-> PyScalar(Zero)]]

ObsInit(x) == [n |-> 0, ok |-> 0, yprev |-> PyScalar(Zero), ones |-> AllZeroData(x)]

NoCall == [none |-> TRUE]

SimIdle == /\ tf = NoResult /\ ctor = NoResult /\ Ts = One
           /\ xs = << >> /\ ys = << >> /\ uform = << >> /\ call = NoCall
           /\ solo = << >> /\ alone = << >> /\ obs = << >>

InitStreams(c, x, f) ==
    /\ ctor = c
    /\ tf = TF(c.num, c.den)
    /\ xs = x
    /\ uform = f
    /\ ys = [s \in DOMAIN x |-> PyScalar(Zero)]
    /\ call = NoCall
    /\ solo = [s \in DOMAIN x |-> SoloInit(tf, x[s])]
    /\ alone = [s \in DOMAIN x |-> [tf |-> tf, x |-> x[s], y |-> PyScalar(Zero)]]
    /\ obs = [s \in DOMAIN x |-> ObsInit(x[s])]

(* y, x = F.apply_f(u, x, Ts) in the loop of stream s: the caller keeps    *)
(* the returned state; a call that raises ends the loop and leaves the     *)
(* caller with the x it passed                                             *)
Step(s, u) ==
    /\ obs[s].n < MaxSteps
    /\ LET returned(r) ==
           /\ call' = [s |-> s, raised |-> r.raised, static |-> r.static,
                       self0 |-> tf, u0 |-> u, x0 |-> xs[s],
                       self1 |-> r.self, u1 |-> r.u, x1 |-> r.x,
                       y |-> r.y, xret |-> r.x1]
           /\ tf' = r.self
           /\ IF r.raised
              THEN /\ xs' = [xs EXCEPT ![s] = r.x]
                   /\ obs' = [obs EXCEPT ![s].n = MaxSteps]
                   /\ UNCHANGED ys
              ELSE /\ xs' = [xs EXCEPT ![s] = r.x1]
                   /\ ys' = [ys EXCEPT ![s] = r.y]
                   /\ obs' = [obs EXCEPT ![s] =
                                [n |-> @.n + 1, ok |-> @.ok + 1, yprev |-> ys[s],
                                 ones |-> @.ones /\ u.data = <<One>>]]
       IN  returned(apply_f(tf, u, xs[s], Ts))
    /\ UNCHANGED <<ctor, Ts, uform, algVars, estVars>>

(* the same inputs given to each channel on its own *)
SoloStep(s, u) ==
    LET kept(ri) == [x |-> ri.x1, y |-> ri.y]
        channels(r) ==
            solo' = [solo EXCEPT ![s] =
                        IF r.raised \/ r.static THEN @
                        ELSE [i \in 1..Len(@) |->
                                kept(apply_f(tf, Arr(<<1>>, <<ColumnOf(u).data[i]>>),
                                             @[i].x, Ts))]]
    IN  channels(apply_f(tf, u, xs[s], Ts))

(* the same inputs given to the stream on a TF object of its own *)
AloneStep(s, u) ==
    LET returned(ra) ==
            alone' = [alone EXCEPT ![s] =
                        IF ra.raised THEN [@ EXCEPT !.tf = ra.self, !.x = ra.x]
                        ELSE [tf |-> ra.self, x |-> ra.x1, y |-> ra.y]]
    IN  returned(apply_f(alone[s].tf, u, alone[s].x, Ts))

-----------------------------------------------------------------------------
(* Complex numbers <<re, im>>, the DFT and the correlation                 *)

CZero == <<Zero, Zero>>
COne == <<One, Zero>>
(* the value numpy writes for a division by a zero bin: nan or inf parts   *)
NotFinite == <<<<1, 0>>, <<1, 0>>>>
IsFinite(z) == z[1][2] # 0 /\ z[2][2] # 0
CAdd(a, b) == <<RAdd(a[1], b[1]), RAdd(a[2], b[2])>>
CMul(a, b) == <<RSub(RMul(a[1], b[1]), RMul(a[2], b[2])),
                RAdd(RMul(a[1], b[2]), RMul(a[2], b[1]))>>
CDiv(a, b) ==
    IF b = CZero \/ ~IsFinite(a) \/ ~IsFinite(b) THEN NotFinite
    ELSE LET m == RAdd(RMul(b[1], b[1]), RMul(b[2], b[2]))
             p == CMul(a, <<b[1], RNeg(b[2])>>)
         IN  <<RDiv(p[1], m), RDiv(p[2], m)>>

RECURSIVE CSum(_)
CSum(s) == IF s = << >> THEN CZero ELSE CAdd(Head(s), CSum(Tail(s)))

(* exp(-2 pi i e / n) for the lengths n whose roots of unity are exact *)
Twiddle(n, e) ==
    LET q == (e * (4 \div n)) % 4
    IN  CASE q = 0 -> <<One, Zero>>
          [] q = 1 -> <<Zero, RNeg(One)>>
          [] q = 2 -> <<RNeg(One), Zero>>
          [] q = 3 -> <<Zero, One>>

(* np.fft.fft of a real sequence: a new complex array *)
fft(x) ==
    LET n == Len(x)
    IN  [k \in 1..n |-> CSum([j \in 1..n |->
            CMul(<<x[j], Zero>>, Twiddle(n, (j - 1) * (k - 1)))])]

(* scipy.signal.correlate(in1, in2, "same") of real sequences: the middle  *)
(* len(in1) entries of the full correlation                                *)
correlate_same(in1, in2) ==
    LET n1 == Len(in1)
        n2 == Len(in2)
        full == [k \in 1..(n1 + n2 - 1) |->
                    RSum([l \in 1..n1 |->
                        IF l - k + n2 >= 1 /\ l - k + n2 <= n2
                        THEN RMul(in1[l], in2[l - k + n2]) ELSE Zero])]
        start == (n2 - 1) \div 2
    IN  [k \in 1..n1 |-> full[k + start]]

(* np.where(A == 0)[0] *)
where_zero(A) == {i \in 1..Len(A) : A[i] = CZero}

(* C[idx] = 0 left out *)
zero_bins_skipped(C, idx) == C
(* C[idx] = 0 *)
zero_bins(C, idx) == [i \in 1..Len(C) |-> IF i \in idx THEN CZero ELSE C[i]]
(* A[idx] = 1 *)
one_bins(A, idx) == [i \in 1..Len(A) |-> IF i \in idx THEN COne ELSE A[i]]
(* C / A, elementwise *)
divide(C, A) == [i \in 1..Len(C) |-> CDiv(C[i], A[i])]
(* H[:int(N/2)] *)
first_half(H) == [i \in 1..(Len(H) \div 2) |-> H[i]]

-----------------------------------------------------------------------------
(* TF_from_signal(y, u, fs, method): the state after lines 31-43, one      *)
(* action per pass of the loop over the channels, and the return.          *)

MaxRows == 2        \* channels (rows) of y

SigLens == {2, 4}
Methods == {"correlation", "direct"}
USigs(n) == [1..n -> {Zero, One}]
            \cup {[i \in 1..n |-> IF i % 2 = 1 THEN One ELSE Int2R(-1)],
                  [i \in 1..n |-> IF i = 1 THEN One ELSE IF i = 3 THEN Int2R(-1) ELSE Zero]}
YSigs(n) == { [i \in 1..n |-> IF i = 1 THEN One ELSE Zero],
              [i \in 1..n |-> One],
              [i \in 1..n |-> IF i % 2 = 1 THEN One ELSE Int2R(2)] }

EstCall ==
    \E n \in SigLens, M \in 1..MaxRows, method \in Methods :
    \E u \in USigs(n), y \in [1..M -> YSigs(n)] :
        est = [pc |-> "loop", method |-> method, y |-> y, u |-> u,
               a |-> IF method = "correlation" THEN correlate_same(u, u) ELSE u,
               k |-> 1,
               H_all |-> [i \in 1..M |-> [j \in 1..(n \div 2) |-> CZero]],
               A |-> << >>, C |-> << >>]

(* lines 46-60: one pass of the loop, for channel est.k *)
EstChannel ==
    /\ ~IsNone(est)
    /\ est.pc = "loop"
    /\ est.k <= Len(est.y)
    /\ LET c == IF est.method = "correlation"
                THEN correlate_same(est.y[est.k], est.u) ELSE est.y[est.k]
           A0 == fft(est.a)
           idx == where_zero(A0)
           C == zero_bins(fft(c), idx)
           A == one_bins(A0, idx)
           H == first_half(divide(C, A))
       IN  est' = [est EXCEPT !.H_all[est.k] = H, !.k = @ + 1, !.A = A, !.C = C]
    /\ UNCHANGED <<simVars, algVars>>

(* line 76: return H_all, fr *)
EstReturn ==
    /\ ~IsNone(est)
    /\ est.pc = "loop"
    /\ est.k > Len(est.y)
    /\ est' = [est EXCEPT !.pc = "done"]
    /\ UNCHANGED <<simVars, algVars>>

-----------------------------------------------------------------------------
(* Specifications *)

EstIdle == est = NoResult

(* one caller stepping one stream, with every form of u and x *)
Init == /\ Ts \in SamplePeriods
        /\ \E c \in SimCtors, f \in UForms : \E x \in XPool(c) :
              InitStreams(c, <<x>>, <<f>>)
        /\ AlgIdle
        /\ EstIdle

StepOne == \E d \in UData(ShapeSize(uform[1].shape)) :
              /\ Step(1, UOf(uform[1], d))
              /\ SoloStep(1, UOf(uform[1], d))
              /\ UNCHANGED alone

Next == StepOne

Spec == Init /\ [][Next]_vars

(* two callers sharing one TF object, each threading an x of its own *)
SharedCtors == { [num |-> IntSeq(<<2>>), den |-> IntSeq(<<1>>)],
                 [num |-> IntSeq(<<1>>), den |-> IntSeq(<<1, 0>>)],
                 [num |-> IntSeq(<<1, 2>>), den |-> IntSeq(<<1, 3, 2>>)] }
SharedX == {Arr(<<1>>, <<Zero>>), Arr(<<2>>, <<One, Zero>>)}
SharedForms == <<[isarr |-> FALSE, shape |-> << >>], [isarr |-> TRUE, shape |-> <<1>>]>>

InitShared == /\ Ts = One
              /\ \E c \in SharedCtors, x1 \in SharedX, x2 \in SharedX :
                    InitStreams(c, <<x1, x2>>, SharedForms)
              /\ AlgIdle
              /\ EstIdle

StepShared == \E s \in {1, 2} : \E d \in UData(ShapeSize(uform[s].shape)) :
                 /\ Step(s, UOf(uform[s], d))
                 /\ AloneStep(s, UOf(uform[s], d))
                 /\ UNCHANGED solo

NextShared == StepShared

SpecShared == InitShared /\ [][NextShared]_vars

(* TF algebra: operators, PID construction and the symbolic round trip *)
NextAlg == \/ Neg
           \/ Binary
           \/ NewPID
           \/ RoundTrip

InitAlg == AlgIdle /\ SimIdle /\ EstIdle

SpecAlg == InitAlg /\ [][NextAlg]_vars

(* the frequency-response estimator *)
NextEst == \/ EstChannel
           \/ EstReturn

InitEst == EstCall /\ SimIdle /\ AlgIdle

SpecEst == InitEst /\ [][NextEst]_vars

-----------------------------------------------------------------------------
(* Properties *)

Called == ~IsNone(call)
Streams == DOMAIN xs

(* the TF object num/den as a rational function equals n/d (d # 0) *)
RefEq(t, n, d) == PMul(PStrip(t.num), PStrip(d)) = PMul(PStrip(n), PStrip(t.den))

(* two non-zero coefficient vectors that differ by one non-zero factor *)
Proportional(a, b) ==
    /\ Len(a) = Len(b)
    /\ \A i \in 1..Len(a), j \in 1..Len(a) : RMul(a[i], b[j]) = RMul(a[j], b[i])

(* C1: for a TF whose num and den hold one coefficient each, apply_f      *)
(* returns u times the gain, in the form of u, and returns the x it was    *)
(* given, whatever u, x and Ts are; the gain is k/d for TF([k], [d]).      *)
C1_StaticGain ==
    (Called /\ IsStatic(call.self0)) =>
        /\ ~call.raised
        /\ call.y.isarr = call.u0.isarr
        /\ call.y.shape = call.u0.shape
        /\ \A i \in 1..Size(call.u0) :
              /\ call.y.data[i] =
                    RDiv(RMul(call.self0.num[1], call.u0.data[i]), call.self0.den[1])
              /\ (Len(ctor.num) = 1 /\ Len(ctor.den) = 1) =>
                    call.y.data[i] = RDiv(RMul(ctor.num[1], call.u0.data[i]), ctor.den[1])
        /\ call.xret = call.x0
        /\ xs[call.s] = call.x0

C1_Witness ==
    /\ Called /\ IsStatic(call.self0)
    /\ ctor.den = <<Int2R(2)>> /\ ctor.num = <<Int2R(-1)>>
    /\ call.u0.shape = <<1, 2>> /\ call.u0.data = <<Int2R(2), Int2R(3)>>
    /\ call.x0.shape = <<2, 2>>
    /\ call.y.data = <<Int2R(-1), <<-3, 2>>>>

(* C2: with dynamics, every channel of an m-channel call gets the output   *)
(* and the next state it gets when apply_f is run on that channel alone    *)
(* with its own part of the state, over successive steps.                  *)
C2_ChannelsIndependent ==
    \A s \in Streams :
        (Called /\ ~IsStatic(tf) /\ obs[s].ok >= 1) =>
            /\ Len(solo[s]) = Size(ys[s])
            /\ Size(xs[s]) = Len(solo[s]) * Order(tf)
            /\ \A i \in 1..Len(solo[s]) :
                  /\ ys[s].data[i] = solo[s][i].y.data[1]
                  /\ Block(xs[s].data, i, Order(tf)) = solo[s][i].x.data

C2_Witness ==
    /\ Called /\ ~IsStatic(tf) /\ Order(tf) = 2
    /\ obs[1].ok = MaxSteps
    /\ Len(solo[1]) = 2
    /\ ys[1].data[1] # ys[1].data[2]
    /\ Block(xs[1].data, 1, 2) # Block(xs[1].data, 2, 2)
    /\ ~AllZeroData(call.x0)

(* C3: apply_f keeps no simulation state in the TF: a call leaves the TF   *)
(* and the u and x objects it is given as they were, and streams           *)
(* interleaved on one shared TF object each get the outputs and states     *)
(* they get on a TF object of their own.                                   *)
C3_Reentrant ==
    /\ (~IsNone(tf)) => tf = TF(ctor.num, ctor.den)
    /\ Called => /\ call.self1 = call.self0
                 /\ call.u1 = call.u0
                 /\ call.x1 = call.x0
    /\ \A s \in Streams : /\ alone[s].tf = tf
                          /\ xs[s] = alone[s].x
                          /\ ys[s] = alone[s].y

C3_Witness ==
    /\ Called /\ ~IsStatic(tf) /\ ~call.raised
    /\ call.s = 1
    /\ obs[1].ok = MaxSteps /\ obs[2].ok >= 1 /\ obs[2].n < MaxSteps
    /\ xs[1] # xs[2]
    /\ ~AllZeroData(xs[2])

(* C5: the integrator TF([1],[1,0]) stepped from x = 0 with constant       *)
(* input 1: consecutive outputs differ by Ts and the output of step n is   *)
(* within Ts of n*Ts.                                                      *)
IsIntegrator == ctor = [num |-> <<One>>, den |-> <<One, Zero>>]

C5_IntegratorRamp ==
    \A s \in Streams :
        (IsIntegrator /\ obs[s].ones /\ obs[s].ok >= 1) =>
            LET y == ys[s].data[1]
                t == RMul(Int2R(obs[s].ok), Ts)
            IN  /\ obs[s].ok = obs[s].n
                /\ RLeq(RAbs(RSub(y, t)), Ts)
                /\ obs[s].ok >= 2 => RSub(y, obs[s].yprev.data[1]) = Ts

C5_Witness ==
    /\ IsIntegrator /\ obs[1].ones /\ obs[1].ok = MaxSteps
    /\ Ts = <<1, 2>>
    /\ ys[1].data[1] = RSub(RMul(Int2R(MaxSteps), Ts), <<1, 4>>)

(* C10 (as claimed): in the dynamic case the returned y has the form of    *)
(* the u given: a number for a number, 1-D for 1-D, a row for a row and a  *)
(* column for a column.                                                    *)
C10_OutputOrientation ==
    (Called /\ ~call.static /\ ~call.raised) =>
        /\ call.y.isarr = call.u0.isarr
        /\ call.y.shape = call.u0.shape

(* C4: every returned bin at which the FFT of the reference is zero holds  *)
(* a zero response, no returned bin is nan or inf, and the reference stays *)
(* what it was for the channels that follow.                               *)
EstRef == IF est.method = "correlation" THEN correlate_same(est.u, est.u) ELSE est.u

C4_ZeroBins ==
    (~IsNone(est)) =>
        LET ref == fft(EstRef)
        IN  /\ est.a = EstRef
            /\ \A k \in 1..(est.k - 1) : \A j \in 1..Len(est.H_all[k]) :
                  /\ IsFinite(est.H_all[k][j])
                  /\ ref[j] = CZero => est.H_all[k][j] = CZero

C4_Witness ==
    /\ ~IsNone(est) /\ est.pc = "done" /\ Len(est.y) = 2
    /\ est.method = "direct"
    /\ \E j \in 1..Len(est.H_all[2]) :
          /\ fft(est.u)[j] = CZero
          /\ fft(est.y[2])[j] # CZero
          /\ est.H_all[2][j] = CZero
    /\ \E j \in 1..Len(est.H_all[2]) : est.H_all[2][j] # CZero

(* C6 (as claimed): the result of every operator is in lowest terms: num   *)
(* and den share no polynomial factor of degree >= 1.                      *)
LowestTerms(t) == Degree(PGcd(PStrip(t.num), PStrip(t.den))) <= 0

C6_LowestTerms == IsTF(R) => LowestTerms(R)

(* C7 (as claimed): the round trip returns (num, den) up to one common     *)
(* non-zero factor: same lengths, proportional coefficients.               *)
C7_RoundTripProportional ==
    (~IsNone(rt)) =>
        /\ ~IsRaised(rt.out)
        /\ Len(rt.out.num) = Len(rt.num)
        /\ Len(rt.out.den) = Len(rt.den)
        /\ Proportional(rt.out.num \o rt.out.den, rt.num \o rt.den)

(* C7 (amended): the round trip returns the same rational function; and    *)
(* when num and den carry no leading zero (num may be [0]) and share no    *)
(* polynomial factor of degree >= 1, it returns (num, den) up to one       *)
(* common non-zero factor: same lengths, proportional coefficients.        *)
NoLeadingZero(p) == p[1] # Zero \/ p = <<Zero>>

C7_RoundTripCoprime ==
    (~IsNone(rt)) =>
        /\ ~IsRaised(rt.out)
        /\ ~AllZero(rt.out.den)
        /\ RefEq(rt.out, rt.num, rt.den)
        /\ (NoLeadingZero(rt.num) /\ rt.den[1] # Zero
              /\ Degree(PGcd(PStrip(rt.num), PStrip(rt.den))) <= 0) =>
                /\ Len(rt.out.num) = Len(rt.num)
                /\ Len(rt.out.den) = Len(rt.den)
                /\ Proportional(rt.out.num \o rt.out.den, rt.num \o rt.den)

C7_Witness ==
    /\ ~IsNone(rt)
    /\ rt.num = <<One, Zero>> /\ rt.den = <<Int2R(-1), One>>
    /\ rt.out.num # rt.num
    /\ Len(rt.out.num) = 2 /\ Len(rt.out.den) = 2

(* C8: F - G is -(G - F); with a number c on the left, c - F is c minus F, *)
(* the negation of F - c, and c / F is c divided by F, the reciprocal of   *)
(* F / c.                                                                  *)
C8_OperandOrder ==
    /\ (lastop.op = "sub" /\ IsTF(G)) =>
          LET back == __sub__(G, F)
          IN  /\ IsTF(R) /\ IsTF(back)
              /\ RefEq(R, PSub(PMul(F.num, G.den), PMul(G.num, F.den)), PMul(F.den, G.den))
              /\ RefEq(R, PNeg(back.num), back.den)
    /\ (lastop.op = "rsub" /\ IsScalar(G)) =>
          LET fc == __sub__(F, G)
          IN  /\ IsTF(R) /\ IsTF(fc)
              /\ RefEq(R, PSub(PScale(F.den, G.scalar), F.num), F.den)
              /\ RefEq(R, PNeg(fc.num), fc.den)
    /\ (lastop.op = "rtruediv" /\ IsScalar(G)) =>
          LET fc == __truediv__(F, G)
          IN  /\ IsTF(R) <=> ~AllZero(F.num)
              /\ IsTF(R) => RefEq(R, PScale(F.den, G.scalar), F.num)
              /\ (IsTF(R) /\ IsTF(fc)) => RefEq(R, fc.den, fc.num)

C8_Witness ==
    /\ lastop.op = "rtruediv" /\ IsScalar(G) /\ G.scalar = Int2R(2)
    /\ F = TF(IntSeq(<<1, 1>>), IntSeq(<<1, 0>>))
    /\ R = TF(IntSeq(<<2, 0>>), IntSeq(<<1, 1>>))
    /\ R # __truediv__(F, G)

(* C9: PID(P, I, D) is P, plus I/s when I # 0, plus D s / ((D/8) s + 1)    *)
(* when D # 0, as a rational function; PID(P, 0, 0) has num = [P] and      *)
(* den = [1]; the gains are kept as kP, kI, kD.                            *)
PIDRef(P, I, D) ==
    LET i == IF I # Zero THEN [n |-> <<I>>, d |-> <<One, Zero>>]
             ELSE [n |-> << >>, d |-> <<One>>]
        dd == IF D # Zero THEN [n |-> <<D, Zero>>, d |-> <<RDiv(D, Int2R(8)), One>>]
              ELSE [n |-> << >>, d |-> <<One>>]
    IN  XAdd(XAdd([n |-> PStrip(<<P>>), d |-> <<One>>], i), dd)

C9_PIDConstruction ==
    (~IsNone(pid)) =>
        LET P == pid.args[1]
            I == pid.args[2]
            D == pid.args[3]
        IN  /\ RefEq(pid.obj, PIDRef(P, I, D).n, PIDRef(P, I, D).d)
            /\ ~AllZero(pid.obj.den)
            /\ (I = Zero /\ D = Zero) => (pid.obj.num = <<P>> /\ pid.obj.den = <<One>>)
            /\ pid.obj.kP = P /\ pid.obj.kI = I /\ pid.obj.kD = D

C9_Witness ==
    /\ ~IsNone(pid)
    /\ pid.args = <<Int2R(2), One, Int2R(-1)>>
    /\ Len(pid.obj.den) = 3 /\ Len(pid.obj.num) = 3

=============================================================================
